---- MODULE Spec2Model ----
(***************************************************************************)
(* A model of the Shadow Code Graph of Legislative-Red-Team.               *)
(*                                                                         *)
(*   - lib/graph.ts: the ShadowCodeGraph store (a Map of nodes keyed by    *)
(*     identifier, an array of edges), its read accessors and its          *)
(*     detectLoopholes method, which in this revision is a stub.           *)
(*   - the shadow-code-graph-loopholes skill (SKILL.md): the documented    *)
(*     implementation of the four detection passes and of                  *)
(*     detectLoopholes.                                                    *)
(*                                                                         *)
(*   - lib/parser.ts: parseIdentifier, and the USLMParser methods, which   *)
(*     in this revision are stubs.                                         *)
(*   - the uslm-xml-parser skill (SKILL.md): the documented reference      *)
(*     extraction and classifyRefType.                                     *)
(*   - the /api/ingest route: its GET and POST handlers.                   *)
(*                                                                         *)
(* Spec       : the store driven through its public methods.               *)
(* SpecPasses : the documented passes run step by step on a finished store.*)
(* SpecBuild  : the store populated by the documented                      *)
(*              buildGraphFromDocuments, one document per step.            *)
(* SpecParser : one call of parseIdentifier or of a USLMParser method.     *)
(* SpecParserDocumented : one call of the documented extractReferences or  *)
(*              classifyRefType.                                           *)
(* SpecIngest : the GET and POST handlers of the /api/ingest route.        *)
(*                                                                         *)
(* An identifier is a string; it is modelled as the sequence of its        *)
(* characters so that the regular expression of the ambiguous pass is      *)
(* computed, not assumed.                                                  *)
(***************************************************************************)
EXTENDS Integers, Sequences, FiniteSets, TLC

VARIABLES
    nodes,          \* this.nodes : Map<string, USLMNode>, as its entries in insertion order
    edges,          \* this.edges : USLMEdge[]
    ret,            \* the last call and the value it returned (op "call": not returned yet)
    runs,           \* the lists returned by detectLoopholes since the store last changed
    detectStarted,  \* some detectLoopholes call has begun on this store
    lastAdded,      \* per identifier, the node passed to the most recent addNode (<<>> if none)
    overwritten,    \* the identifiers for which an addNode replaced a different node
    addedEdges,     \* the edges passed to addEdge, one entry per call, in call order
    pc,             \* position of the documented detectLoopholes ("idle" under Spec)
    ni,             \* detectCircularReferences: index of the next node of getAllNodes()
    frames,         \* detectCircularReferences: the activation records of dfs
    visited,        \* detectCircularReferences: const visited = new Set<string>()
    stack,          \* detectCircularReferences: const stack = new Set<string>()
    loopholes,      \* detectCircularReferences: const loopholes: LoopholeResult[]
    passOut,        \* the lists the four passes returned, and the final list
    bills,          \* the rows of the bills table, by congress_id
    upstream,       \* the requests sent to Congress.gov, in order
    apiKey          \* process.env.CONGRESS_API_KEY (<<>>: not configured)

vars == <<nodes, edges, ret, runs, detectStarted, lastAdded, overwritten, addedEdges,
          pc, ni, frames, visited, stack, loopholes, passOut,
          bills, upstream, apiKey>>

storeVars == <<nodes, edges, ret, runs, detectStarted, lastAdded, overwritten,
               addedEdges>>
passVars == <<pc, ni, frames, visited, stack, loopholes, passOut>>
ingestVars == <<bills, upstream, apiKey>>

(***************************************************************************)
(* Bounds and input sets.                                                  *)
(***************************************************************************)
MaxEdges == 3
MaxRuns == 2

\* "/t/a", "/t/b" and "/u" as character sequences.
IdA == <<"/", "t", "/", "a">>
IdB == <<"/", "t", "/", "b">>
IdC == <<"/", "u">>
Ids == {IdA, IdB, IdC}

RefTypes == {"citation"}

\* The (from, to) pairs handed to addEdge: the cycle A -> B -> C -> A, the
\* and the self-loop A -> A; every pair may be added more than once, and an
\* end that is not (yet) a node is a dangling end.
EdgePairs == {<<IdA, IdB>>, <<IdB, IdC>>, <<IdC, IdA>>, <<IdA, IdA>>}

\* The nodes handed to addNode: one node per identifier, and a second node
\* for "/t/a" that differs from the first in both citation and nodeType.
NodeInputs ==
    {[identifier |-> id, citation |-> "c1", nodeType |-> "section"] : id \in Ids}
    \cup {[identifier |-> IdA, citation |-> "c2", nodeType |-> "chapter"]}

EdgeInputs ==
    {[from |-> p[1], to |-> p[2], refType |-> t] : p \in EdgePairs, t \in RefTypes}

(***************************************************************************)
(* Sequence helpers.                                                       *)
(***************************************************************************)
Range(s) == {s[i] : i \in DOMAIN s}

\* Array.prototype.filter with a predicate on the element.
RECURSIVE FilterFrom(_, _)
FilterFrom(es, id) ==
    IF es = <<>> THEN <<>>
    ELSE IF Head(es).from = id THEN <<Head(es)>> \o FilterFrom(Tail(es), id)
    ELSE FilterFrom(Tail(es), id)

RECURSIVE FilterTo(_, _)
FilterTo(es, id) ==
    IF es = <<>> THEN <<>>
    ELSE IF Head(es).to = id THEN <<Head(es)>> \o FilterTo(Tail(es), id)
    ELSE FilterTo(Tail(es), id)

(***************************************************************************)
(* lib/graph.ts: the store.                                                *)
(***************************************************************************)
\* A store that keeps the first node of an identifier:
\* "if (!this.nodes.has(id)) this.nodes.set(id, node)".
MapSet_KeepFirst(ns, n) ==
    IF \E i \in DOMAIN ns : ns[i].identifier = n.identifier
    THEN ns
    ELSE Append(ns, n)

\* Map.prototype.set: an existing key keeps its position and takes the new
\* value; a new key is appended.
MapSet(ns, n) ==
    IF \E i \in DOMAIN ns : ns[i].identifier = n.identifier
    THEN [i \in DOMAIN ns |-> IF ns[i].identifier = n.identifier THEN n ELSE ns[i]]
    ELSE Append(ns, n)

\* Map.prototype.get; undefined is <<>>, a found node n is <<n>>.
getNode(ns, id) ==
    IF \E i \in DOMAIN ns : ns[i].identifier = id
    THEN <<ns[CHOOSE i \in DOMAIN ns : ns[i].identifier = id]>>
    ELSE <<>>

\* An accessor that filters on the wrong end of the edge.
getEdgesFrom_ByTo(es, id) == FilterTo(es, id)

getEdgesFrom(es, id) == FilterFrom(es, id)

getEdgesTo(es, id) == FilterTo(es, id)

getAllNodes(ns) == ns

getAllEdges(es) == es

\* A detectLoopholes that pushes onto a list kept in the instance and
\* never cleared, so that each call returns one more entry than the last.
detectLoopholes_Accumulating(ns, es) ==
    [k \in 1..Len(runs) |->
        [type |-> "circular_dependency", severity |-> "high",
         description |-> [template |-> "", cite |-> "", ids |-> <<>>],
         affectedNodes |-> <<>>]]

\* The stub: "return [];".
detectLoopholes(ns, es) == <<>>

\* An addEdge that skips an edge the array already holds.
ArrayPush_Dedup(es, e) ==
    IF \E i \in DOMAIN es : es[i] = e THEN es ELSE Append(es, e)

\* An addEdge that uses unshift: the new edge goes to the front.
ArrayPush_Unshift(es, e) == <<e>> \o es

\* Array.prototype.push.
ArrayPush(es, e) == Append(es, e)

NodeKeys(ns) == {ns[i].identifier : i \in DOMAIN ns}

AddNode ==
    \E n \in NodeInputs :
        /\ nodes' = MapSet(nodes, n)
        /\ lastAdded' = [lastAdded EXCEPT ![n.identifier] = <<n>>]
        /\ overwritten' =
               IF lastAdded[n.identifier] \notin {<<>>, <<n>>}
               THEN overwritten \cup {n.identifier}
               ELSE overwritten
        /\ ret' = [op |-> "addNode", value |-> <<>>]
        /\ runs' = <<>>
        /\ UNCHANGED <<edges, detectStarted, addedEdges>>
        /\ UNCHANGED passVars
        /\ UNCHANGED ingestVars

AddEdge ==
    \E e \in EdgeInputs :
        /\ Len(edges) < MaxEdges
        /\ edges' = ArrayPush(edges, e)
        /\ addedEdges' = Append(addedEdges, e)
        /\ ret' = [op |-> "addEdge", value |-> <<>>]
        /\ runs' = <<>>
        /\ UNCHANGED <<nodes, detectStarted, lastAdded, overwritten>>
        /\ UNCHANGED passVars
        /\ UNCHANGED ingestVars

GetNode ==
    \E id \in Ids :
        /\ ret' = [op |-> "getNode", value |-> getNode(nodes, id)]
        /\ UNCHANGED <<nodes, edges, runs, detectStarted, lastAdded, overwritten, addedEdges>>
        /\ UNCHANGED passVars
        /\ UNCHANGED ingestVars

GetEdgesFrom ==
    \E id \in Ids :
        /\ ret' = [op |-> "getEdgesFrom", value |-> getEdgesFrom(edges, id)]
        /\ UNCHANGED <<nodes, edges, runs, detectStarted, lastAdded, overwritten, addedEdges>>
        /\ UNCHANGED passVars
        /\ UNCHANGED ingestVars

GetEdgesTo ==
    \E id \in Ids :
        /\ ret' = [op |-> "getEdgesTo", value |-> getEdgesTo(edges, id)]
        /\ UNCHANGED <<nodes, edges, runs, detectStarted, lastAdded, overwritten, addedEdges>>
        /\ UNCHANGED passVars
        /\ UNCHANGED ingestVars

GetAllNodes ==
    /\ ret' = [op |-> "getAllNodes", value |-> getAllNodes(nodes)]
    /\ UNCHANGED <<nodes, edges, runs, detectStarted, lastAdded, overwritten, addedEdges>>
    /\ UNCHANGED passVars
    /\ UNCHANGED ingestVars

\* A getAllEdges that hands out the array with splice(0), emptying it.
GetAllEdges_Splice ==
    /\ ret' = [op |-> "getAllEdges", value |-> edges]
    /\ edges' = <<>>
    /\ UNCHANGED <<nodes, runs, detectStarted, lastAdded, overwritten, addedEdges>>
    /\ UNCHANGED passVars
    /\ UNCHANGED ingestVars

GetAllEdges ==
    /\ ret' = [op |-> "getAllEdges", value |-> getAllEdges(edges)]
    /\ UNCHANGED <<nodes, edges, runs, detectStarted, lastAdded, overwritten, addedEdges>>
    /\ UNCHANGED passVars
    /\ UNCHANGED ingestVars

DetectLoopholes ==
    /\ Len(runs) < MaxRuns
    /\ detectStarted' = TRUE
    /\ runs' = Append(runs, detectLoopholes(nodes, edges))
    /\ ret' = [op |-> "detectLoopholes", value |-> detectLoopholes(nodes, edges)]
    /\ UNCHANGED <<nodes, edges, lastAdded, overwritten, addedEdges>>
    /\ UNCHANGED passVars
    /\ UNCHANGED ingestVars

(***************************************************************************)
(* The documented detection passes (shadow-code-graph-loopholes skill).    *)
(***************************************************************************)
\* A description is a template string with its interpolated values: the
\* citation (a string) and the identifiers, in the order the template
\* prints them.
Description(template, cite, ids) == [template |-> template, cite |-> cite, ids |-> ids]

\* Array.prototype.indexOf, 0-based, -1 when absent.
indexOf(path, x) ==
    IF \E i \in DOMAIN path : path[i] = x
    THEN (CHOOSE i \in DOMAIN path : path[i] = x /\ \A j \in 1..(i - 1) : path[j] # x) - 1
    ELSE -1

\* Array.prototype.slice(start): a negative start counts from the end.
slice(path, start) ==
    LET from0 == IF start < 0
                 THEN (IF Len(path) + start < 0 THEN 0 ELSE Len(path) + start)
                 ELSE start
    IN  SubSeq(path, from0 + 1, Len(path))

\* A finding that reports the whole path, not the part from nodeId on.
CircularFinding_WholePath(path, nodeId) ==
    [type |-> "circular_dependency",
     severity |-> "high",
     description |-> Description("Circular reference chain", "", Append(path, nodeId)),
     affectedNodes |-> Append(path, nodeId)]

\* The finding dfs pushes when nodeId is on the stack.
CircularFinding(path, nodeId) ==
    LET cycleStart == indexOf(path, nodeId)
        cycle == slice(path, cycleStart)
    IN  [type |-> "circular_dependency",
         severity |-> "high",
         description |-> Description("Circular reference chain", "", Append(cycle, nodeId)),
         affectedNodes |-> Append(cycle, nodeId)]

\* dfs as a function of the closure state st = [visited, stack, loopholes].
RECURSIVE dfs(_, _, _, _)
RECURSIVE dfsEdges(_, _, _, _)
\* A dfs that has the stack guard but not the visited guard.
dfs_NoVisitedGuard(es, st, nodeId, path) ==
    IF nodeId \in st.stack
    THEN [st EXCEPT !.loopholes = Append(@, CircularFinding(path, nodeId))]
    ELSE LET entered == [st EXCEPT !.visited = @ \cup {nodeId},
                                   !.stack = @ \cup {nodeId}]
             explored == dfsEdges(es, entered, getEdgesFrom(es, nodeId),
                                  Append(path, nodeId))
         IN  [explored EXCEPT !.stack = @ \ {nodeId}]

dfs(es, st, nodeId, path) ==
    IF nodeId \in st.stack
    THEN [st EXCEPT !.loopholes = Append(@, CircularFinding(path, nodeId))]
    ELSE IF nodeId \in st.visited
    THEN st
    ELSE LET entered == [st EXCEPT !.visited = @ \cup {nodeId},
                                   !.stack = @ \cup {nodeId}]
             explored == dfsEdges(es, entered, getEdgesFrom(es, nodeId),
                                  Append(path, nodeId))
         IN  [explored EXCEPT !.stack = @ \ {nodeId}]

dfsEdges(es, st, list, path) ==
    IF list = <<>> THEN st
    ELSE dfsEdges(es, dfs(es, st, Head(list).to, path), Tail(list), path)

RECURSIVE dfsAll(_, _, _)
dfsAll(es, st, ns) ==
    IF ns = <<>> THEN st
    ELSE dfsAll(es, dfs(es, st, Head(ns).identifier, <<>>), Tail(ns))

detectCircularReferences(ns, es) ==
    dfsAll(es, [visited |-> {}, stack |-> {}, loopholes |-> <<>>], getAllNodes(ns)).loopholes

\* For each finding of detectCircularReferences, in order, the node of the
\* outer for loop whose dfs call pushed it.
RECURSIVE dfsStarts(_, _, _)
dfsStarts(es, st, ns) ==
    IF ns = <<>> THEN <<>>
    ELSE LET after == dfs(es, st, Head(ns).identifier, <<>>)
         IN  [i \in 1..(Len(after.loopholes) - Len(st.loopholes)) |-> Head(ns).identifier]
             \o dfsStarts(es, after, Tail(ns))

circularStarts(ns, es) ==
    dfsStarts(es, [visited |-> {}, stack |-> {}, loopholes |-> <<>>], getAllNodes(ns))

OrphanedFinding(node) ==
    [type |-> "orphaned_section",
     severity |-> "medium",
     description |-> Description("Section references other sections but is never referenced",
                                 node.citation, <<>>),
     affectedNodes |-> <<node.identifier>>]

RECURSIVE OrphanedLoop(_, _, _)
OrphanedLoop(ns, es, referenced) ==
    IF ns = <<>> THEN <<>>
    ELSE LET node == Head(ns)
             hasOutgoing == Len(getEdgesFrom(es, node.identifier)) > 0
             hasIncoming == node.identifier \in referenced
         IN  (IF hasOutgoing /\ ~hasIncoming THEN <<OrphanedFinding(node)>> ELSE <<>>)
             \o OrphanedLoop(Tail(ns), es, referenced)

detectOrphanedSections(ns, es) ==
    OrphanedLoop(getAllNodes(ns), es, {e.to : e \in Range(getAllEdges(es))})

\* A dangling finding whose severity looks at the edge's ends.
DanglingFinding_SeverityByEnds(edge) ==
    [type |-> "dangling_reference",
     severity |-> IF edge.from = edge.to THEN "high" ELSE "medium",
     description |-> Description("Reference to non-existent section", "", <<edge.to>>),
     affectedNodes |-> <<edge.from, edge.to>>]

DanglingFinding(edge) ==
    [type |-> "dangling_reference",
     severity |-> "medium",
     description |-> Description("Reference to non-existent section", "", <<edge.to>>),
     affectedNodes |-> <<edge.from, edge.to>>]

RECURSIVE DanglingLoop(_, _)
DanglingLoop(es, nodeIds) ==
    IF es = <<>> THEN <<>>
    ELSE (IF Head(es).to \notin nodeIds THEN <<DanglingFinding(Head(es))>> ELSE <<>>)
         \o DanglingLoop(Tail(es), nodeIds)

detectDanglingReferences(ns, es) ==
    DanglingLoop(getAllEdges(es), {n.identifier : n \in Range(getAllNodes(ns))})

\* edge.to.replace(/\/[^/]+$/, ''): the last "/" and what follows it are
\* removed when at least one character follows it; otherwise the string is
\* left as it is.
basePath(id) ==
    LET slashes == {i \in DOMAIN id : id[i] = "/"}
    IN  IF slashes = {} THEN id
        ELSE LET last == CHOOSE i \in slashes : \A j \in slashes : j <= i
             IN  IF last < Len(id) THEN SubSeq(id, 1, last - 1) ELSE id

\* The values of a sequence in first-seen order: the insertion order of a
\* Set or of the keys of a Map.
RECURSIVE FirstSeen(_, _)
FirstSeen(s, seen) ==
    IF s = <<>> THEN <<>>
    ELSE IF Head(s) \in seen THEN FirstSeen(Tail(s), seen)
    ELSE <<Head(s)>> \o FirstSeen(Tail(s), seen \cup {Head(s)})

AmbiguousFinding(base, uniqueTargets) ==
    [type |-> "ambiguous_reference",
     severity |-> "low",
     description |-> Description("Multiple similar references under", "", <<base>>),
     affectedNodes |-> uniqueTargets]

RECURSIVE AmbiguousLoop(_, _)
AmbiguousLoop(bases, es) ==
    IF bases = <<>> THEN <<>>
    ELSE LET base == Head(bases)
             group == SelectSeq(es, LAMBDA e : basePath(e.to) = base)
             uniqueTargets == FirstSeen([i \in DOMAIN group |-> group[i].to], {})
         IN  (IF Len(uniqueTargets) > 1 /\ Len(uniqueTargets) < 5
              THEN <<AmbiguousFinding(base, uniqueTargets)>> ELSE <<>>)
             \o AmbiguousLoop(Tail(bases), es)

detectAmbiguousReferences(es) ==
    LET all == getAllEdges(es)
    IN  AmbiguousLoop(FirstSeen([i \in DOMAIN all |-> basePath(all[i].to)], {}), all)

\* The documented "Complete detectLoopholes Implementation".
detectLoopholesDocumented(ns, es) ==
    detectCircularReferences(ns, es)
    \o detectOrphanedSections(ns, es)
    \o detectDanglingReferences(ns, es)
    \o detectAmbiguousReferences(es)

PassIdle ==
    /\ pc = "idle"
    /\ ni = 0
    /\ frames = <<>>
    /\ visited = {}
    /\ stack = {}
    /\ loopholes = <<>>
    /\ passOut = <<>>

\* The ingest route is not involved: nothing stored, nothing requested.
IngestIdle ==
    /\ bills = {}
    /\ upstream = <<>>
    /\ apiKey = <<>>

Init ==
    /\ nodes = <<>>
    /\ edges = <<>>
    /\ ret = [op |-> "createGraph", value |-> <<>>]
    /\ runs = <<>>
    /\ detectStarted = FALSE
    /\ lastAdded = [id \in Ids |-> <<>>]
    /\ overwritten = {}
    /\ addedEdges = <<>>
    /\ PassIdle
    /\ IngestIdle

Next ==
    \/ AddNode
    \/ AddEdge
    \/ GetNode
    \/ GetEdgesFrom
    \/ GetEdgesTo
    \/ GetAllNodes
    \/ GetAllEdges
    \/ DetectLoopholes

Spec == Init /\ [][Next]_vars

(***************************************************************************)
(* SpecPasses: the documented detectLoopholes run step by step on a store  *)
(* whose build phase is over.  detectCircularReferences runs one step per  *)
(* dfs entry and per iteration of its for loop; frames holds one record    *)
(* per active dfs call: its nodeId, its path, and k, the number of edges   *)
(* of getEdgesFrom(nodeId) already taken (0: the call has not yet passed   *)
(* its two guards).                                                        *)
(***************************************************************************)
MaxDepth == 6

\* The stores the passes are run on: every insertion order of every set of
\* nodes, every sequence of at most MaxEdges edges over the pairs of
\* addEdge and the back edge B -> A.
PassNodes ==
    {ns \in UNION {[1..k -> {n \in NodeInputs : n.citation = "c1"}] : k \in 0..Cardinality(Ids)} :
        \A i, j \in DOMAIN ns : i # j => ns[i].identifier # ns[j].identifier}

PassEdgeInputs ==
    EdgeInputs \cup {[from |-> IdB, to |-> IdA, refType |-> t] : t \in RefTypes}

PassEdges == UNION {[1..k -> PassEdgeInputs] : k \in 0..MaxEdges}

Top == frames[Len(frames)]

Pop == SubSeq(frames, 1, Len(frames) - 1)

\* for (const node of this.getAllNodes()) dfs(node.identifier, []);
DfsStart ==
    /\ pc = "circular"
    /\ frames = <<>>
    /\ ni <= Len(getAllNodes(nodes))
    /\ frames' = <<[nodeId |-> getAllNodes(nodes)[ni].identifier, path |-> <<>>, k |-> 0]>>
    /\ ni' = ni + 1
    /\ UNCHANGED <<pc, visited, stack, loopholes, passOut>>
    /\ UNCHANGED storeVars
    /\ UNCHANGED ingestVars

\* A dfs without its two guards: every call enters.
DfsEnter_NoGuards ==
    /\ pc = "circular"
    /\ frames # <<>>
    /\ Top.k = 0
    /\ visited' = visited \cup {Top.nodeId}
    /\ stack' = stack \cup {Top.nodeId}
    /\ frames' = [frames EXCEPT ![Len(frames)].k = 1]
    /\ UNCHANGED <<pc, ni, loopholes, passOut>>
    /\ UNCHANGED storeVars
    /\ UNCHANGED ingestVars

\* A dfs that has the stack guard but not the visited guard.
DfsEnter_NoVisitedGuard ==
    /\ pc = "circular"
    /\ frames # <<>>
    /\ Top.k = 0
    /\ IF Top.nodeId \in stack
       THEN /\ loopholes' = Append(loopholes, CircularFinding(Top.path, Top.nodeId))
            /\ frames' = Pop
            /\ UNCHANGED <<visited, stack>>
       ELSE /\ visited' = visited \cup {Top.nodeId}
            /\ stack' = stack \cup {Top.nodeId}
            /\ frames' = [frames EXCEPT ![Len(frames)].k = 1]
            /\ UNCHANGED loopholes
    /\ UNCHANGED <<pc, ni, passOut>>
    /\ UNCHANGED storeVars
    /\ UNCHANGED ingestVars

\* The two guards of dfs, then visited.add and stack.add.
DfsEnter ==
    /\ pc = "circular"
    /\ frames # <<>>
    /\ Top.k = 0
    /\ IF Top.nodeId \in stack
       THEN /\ loopholes' = Append(loopholes, CircularFinding(Top.path, Top.nodeId))
            /\ frames' = Pop
            /\ UNCHANGED <<visited, stack>>
       ELSE IF Top.nodeId \in visited
       THEN /\ frames' = Pop
            /\ UNCHANGED <<visited, stack, loopholes>>
       ELSE /\ visited' = visited \cup {Top.nodeId}
            /\ stack' = stack \cup {Top.nodeId}
            /\ frames' = [frames EXCEPT ![Len(frames)].k = 1]
            /\ UNCHANGED loopholes
    /\ UNCHANGED <<pc, ni, passOut>>
    /\ UNCHANGED storeVars
    /\ UNCHANGED ingestVars

\* One iteration of "for (const edge of this.getEdgesFrom(nodeId))", or,
\* after the last one, stack.delete and the return.
DfsLoop ==
    /\ pc = "circular"
    /\ frames # <<>>
    /\ Top.k > 0
    /\ LET list == getEdgesFrom(edges, Top.nodeId)
       IN  IF Top.k <= Len(list)
           THEN /\ Len(frames) < MaxDepth
                /\ frames' = Append([frames EXCEPT ![Len(frames)].k = Top.k + 1],
                                    [nodeId |-> list[Top.k].to,
                                     path |-> Append(Top.path, Top.nodeId),
                                     k |-> 0])
                /\ UNCHANGED stack
           ELSE /\ stack' = stack \ {Top.nodeId}
                /\ frames' = Pop
    /\ UNCHANGED <<pc, ni, visited, loopholes, passOut>>
    /\ UNCHANGED storeVars
    /\ UNCHANGED ingestVars

\* return loopholes;
CircularReturn ==
    /\ pc = "circular"
    /\ frames = <<>>
    /\ ni > Len(getAllNodes(nodes))
    /\ passOut' = <<loopholes>>
    /\ pc' = "orphaned"
    /\ UNCHANGED <<ni, frames, visited, stack, loopholes>>
    /\ UNCHANGED storeVars
    /\ UNCHANGED ingestVars

OrphanedPass ==
    /\ pc = "orphaned"
    /\ passOut' = Append(passOut, detectOrphanedSections(nodes, edges))
    /\ pc' = "dangling"
    /\ UNCHANGED <<ni, frames, visited, stack, loopholes>>
    /\ UNCHANGED storeVars
    /\ UNCHANGED ingestVars

DanglingPass ==
    /\ pc = "dangling"
    /\ passOut' = Append(passOut, detectDanglingReferences(nodes, edges))
    /\ pc' = "ambiguous"
    /\ UNCHANGED <<ni, frames, visited, stack, loopholes>>
    /\ UNCHANGED storeVars
    /\ UNCHANGED ingestVars

AmbiguousPass ==
    /\ pc = "ambiguous"
    /\ passOut' = Append(passOut, detectAmbiguousReferences(edges))
    /\ pc' = "concat"
    /\ UNCHANGED <<ni, frames, visited, stack, loopholes>>
    /\ UNCHANGED storeVars
    /\ UNCHANGED ingestVars

\* The spread of the four lists into the returned array.
ConcatReturn ==
    /\ pc = "concat"
    /\ passOut' = Append(passOut, passOut[1] \o passOut[2] \o passOut[3] \o passOut[4])
    /\ pc' = "done"
    /\ UNCHANGED <<ni, frames, visited, stack, loopholes>>
    /\ UNCHANGED storeVars
    /\ UNCHANGED ingestVars

InitPasses ==
    /\ nodes \in PassNodes
    /\ edges \in PassEdges
    /\ ret = [op |-> "detectLoopholes", value |-> <<>>]
    /\ runs = <<>>
    /\ detectStarted = TRUE
    /\ lastAdded = [id \in Ids |-> getNode(nodes, id)]
    /\ overwritten = {}
    /\ addedEdges = edges
    /\ pc = "circular"
    /\ ni = 1
    /\ frames = <<>>
    /\ visited = {}
    /\ stack = {}
    /\ loopholes = <<>>
    /\ passOut = <<>>
    /\ IngestIdle

NextPasses ==
    \/ DfsStart
    \/ DfsEnter
    \/ DfsLoop
    \/ CircularReturn
    \/ OrphanedPass
    \/ DanglingPass
    \/ AmbiguousPass
    \/ ConcatReturn

SpecPasses == InitPasses /\ [][NextPasses]_vars /\ WF_vars(NextPasses)

\* The step-by-step run and the recursive definitions are the same function.
PassesAgree ==
    /\ Len(passOut) >= 1 => passOut[1] = detectCircularReferences(nodes, edges)
    /\ pc = "done" => passOut[5] = detectLoopholesDocumented(nodes, edges)

(***************************************************************************)
(* SpecBuild: a store populated only by the documented                     *)
(* buildGraphFromDocuments, one document per step (the body of its outer   *)
(* for loop: one addNode, then one addEdge per reference).                 *)
(***************************************************************************)
MaxRefs == 2

\* formatCitation is called but defined nowhere in the repository: the
\* citation is kept as "the citation formatted from this identifier".
formatCitation(id) == [citationOf |-> id]

\* inferNodeType is called but defined nowhere in the repository: the six
\* node types are kept, every other element type becomes "section".
inferNodeType(type) ==
    IF type \in {"title", "subtitle", "chapter", "subchapter", "part", "section"}
    THEN type
    ELSE "section"

\* USLMReference values of the documents: two types, a target that is a
\* document identifier and one that is not.
RefInputs == [type : {"citation", "amendment"}, target : {IdB, IdC}, text : {"see"}]

\* USLMDocument values: identifier, root.type and references.
DocHeads ==
    {[identifier |-> IdA, root |-> [type |-> "chapter"]],
     [identifier |-> IdA, root |-> [type |-> "paragraph"]],
     [identifier |-> IdB, root |-> [type |-> "chapter"]]}

DocInputs ==
    {[identifier |-> h.identifier, root |-> h.root, references |-> refs] :
        h \in DocHeads, refs \in UNION {[1..k -> RefInputs] : k \in 0..MaxRefs}}

\* An edge drawn from the reference's target to the document.
MergeEdge_Reversed(doc, ref) ==
    [from |-> ref.target, to |-> doc.identifier, refType |-> ref.type, context |-> ref.text]

\* An edge that drops the reference's type.
MergeEdge_AlwaysCitation(doc, ref) ==
    [from |-> doc.identifier, to |-> ref.target, refType |-> "citation", context |-> ref.text]

\* The edge added for one reference of a document.
MergeEdge(doc, ref) ==
    [from |-> doc.identifier, to |-> ref.target, refType |-> ref.type, context |-> ref.text]

\* The node added for a document.
MergeNode(doc) ==
    [identifier |-> doc.identifier,
     citation |-> formatCitation(doc.identifier),
     nodeType |-> inferNodeType(doc.root.type)]

\* for (const ref of doc.references) graph.addEdge({...});
RECURSIVE MergeEdges(_, _, _)
MergeEdges(es, doc, refs) ==
    IF refs = <<>> THEN es
    ELSE MergeEdges(ArrayPush(es, MergeEdge(doc, Head(refs))), doc, Tail(refs))

MergeDocument ==
    \E doc \in DocInputs :
        /\ Len(edges) + Len(doc.references) <= MaxEdges
        /\ nodes' = MapSet(nodes, MergeNode(doc))
        /\ edges' = MergeEdges(edges, doc, doc.references)
        /\ lastAdded' = [lastAdded EXCEPT ![doc.identifier] = <<MergeNode(doc)>>]
        /\ overwritten' =
               IF lastAdded[doc.identifier] \notin {<<>>, <<MergeNode(doc)>>}
               THEN overwritten \cup {doc.identifier}
               ELSE overwritten
        /\ addedEdges' =
               addedEdges \o [i \in DOMAIN doc.references |-> MergeEdge(doc, doc.references[i])]
        /\ ret' = [op |-> "mergeDocument", value |-> doc]
        /\ runs' = <<>>
        /\ UNCHANGED detectStarted
        /\ UNCHANGED passVars
        /\ UNCHANGED ingestVars

NextBuild == MergeDocument

SpecBuild == Init /\ [][NextBuild]_vars

(***************************************************************************)
(* lib/parser.ts.  A string is the sequence of its characters; a plain     *)
(* JavaScript object is the sequence of its own [key, value] entries in    *)
(* the order Object.keys enumerates them.                                  *)
(***************************************************************************)
MaxIdLen == 8
MaxItems == 2

Alphabet == {"/", "a", "1", "0"}

\* "/us/usc/t42/s1983", the identifier of the doc comment of parseIdentifier.
ExampleId == <<"/", "u", "s", "/", "u", "s", "c", "/", "t", "4", "2", "/", "s", "1", "9", "8", "3">>

\* "/us/bill/118/hr", a bill identifier whose second key is a number.
BillId == <<"/", "u", "s", "/", "b", "i", "l", "l", "/", "1", "1", "8", "/", "h", "r">>

\* "/__proto__/a/a/1"
ProtoId == <<"/", "_", "_", "p", "r", "o", "t", "o", "_", "_", "/", "a", "/", "a", "/", "1">>

IdentifierInputs ==
    UNION {[1..k -> Alphabet] : k \in 0..MaxIdLen} \cup {ExampleId, BillId, ProtoId}

\* String.prototype.split(sep) for a one-character separator: the pieces
\* between the separators, empty pieces included.
RECURSIVE split(_, _)
split(s, sep) ==
    IF \A i \in DOMAIN s : s[i] # sep
    THEN <<s>>
    ELSE LET i == CHOOSE i \in DOMAIN s : s[i] = sep /\ \A j \in 1..(i - 1) : s[j] # sep
         IN  <<SubSeq(s, 1, i - 1)>> \o split(SubSeq(s, i + 1, Len(s)), sep)

\* Array.prototype.filter(Boolean) on strings: the empty string is falsy.
filterBoolean(parts) == SelectSeq(parts, LAMBDA part : part # <<>>)

Digits == {"0", "1", "2", "3", "4", "5", "6", "7", "8", "9"}

DigitValue(c) ==
    CASE c = "0" -> 0 [] c = "1" -> 1 [] c = "2" -> 2 [] c = "3" -> 3 [] c = "4" -> 4
      [] c = "5" -> 5 [] c = "6" -> 6 [] c = "7" -> 7 [] c = "8" -> 8 [] c = "9" -> 9

\* The largest array index, 2^32 - 2, as a string.
MaxArrayIndex == <<"4", "2", "9", "4", "9", "6", "7", "2", "9", "4">>

\* a < b for canonical numeric strings: shorter first, then digit by digit.
NumLess(a, b) ==
    \/ Len(a) < Len(b)
    \/ /\ Len(a) = Len(b)
       /\ \E i \in DOMAIN a :
             /\ DigitValue(a[i]) < DigitValue(b[i])
             /\ \A j \in 1..(i - 1) : a[j] = b[j]

\* A property key that is an array index: a canonical numeric string up to
\* 2^32 - 2.  Object.keys enumerates these keys first, in ascending order.
IsArrayIndex(key) ==
    /\ key # <<>>
    /\ \A i \in DOMAIN key : key[i] \in Digits
    /\ Len(key) > 1 => key[1] # "0"
    /\ key = MaxArrayIndex \/ NumLess(key, MaxArrayIndex)

ProtoKey == <<"_", "_", "p", "r", "o", "t", "o", "_", "_">>

\* result[key] = value on a plain object whose values are strings: the
\* __proto__ setter ignores a string, an existing key keeps its place, a new
\* array index goes among the array indices, any other new key goes last.
ObjectSet(obj, key, value) ==
    IF key = ProtoKey THEN obj
    ELSE IF \E i \in DOMAIN obj : obj[i].key = key
    THEN [i \in DOMAIN obj |->
            IF obj[i].key = key THEN [key |-> key, value |-> value] ELSE obj[i]]
    ELSE IF IsArrayIndex(key)
    THEN SelectSeq(obj, LAMBDA e : IsArrayIndex(e.key) /\ NumLess(e.key, key))
         \o <<[key |-> key, value |-> value]>>
         \o SelectSeq(obj, LAMBDA e : ~(IsArrayIndex(e.key) /\ NumLess(e.key, key)))
    ELSE Append(obj, [key |-> key, value |-> value])

\* for (let i = 0; i < parts.length; i += 2) if (i + 1 < parts.length) ...
\* parts[i] of the code is parts[i + 1] here.
RECURSIVE parseIdentifierLoop(_, _, _)
parseIdentifierLoop(parts, i, result) ==
    IF ~(i < Len(parts)) THEN result
    ELSE parseIdentifierLoop(parts, i + 2,
             IF i + 1 < Len(parts)
             THEN ObjectSet(result, parts[i + 1], parts[i + 2])
             ELSE result)

parseIdentifier(identifier) ==
    parseIdentifierLoop(filterBoolean(split(identifier, "/")), 0, <<>>)

RootTags == {"lawDoc", "bill", "resolution"}

\* A parse that throws when the content has no recognized root.
parse_ThrowsOnNoRoot(xmlContent) ==
    IF xmlContent.tag \in RootTags
    THEN [docType |-> "unknown",
          identifier |-> <<>>,
          root |-> [type |-> "document", identifier |-> <<>>, children |-> <<>>, refs |-> <<>>],
          references |-> <<>>]
    ELSE [error |-> "Invalid USLM document: no root element found"]

\* USLMParser.parse, a stub: the same document whatever the content.
parse(xmlContent) ==
    [docType |-> "unknown",
     identifier |-> <<>>,
     root |-> [type |-> "document", identifier |-> <<>>, children |-> <<>>, refs |-> <<>>],
     references |-> <<>>]

\* USLMParser.extractReferences, a stub.
extractReferences(element) == <<>>

\* USLMParser.validate, a stub.
validate(xmlContent) == [valid |-> TRUE, errors |-> <<>>]

\* Targets of <ref> tags.
HrefExample == ExampleId
HrefAmend == <<"/", "u", "s", "/", "p", "l", "/", "a", "m", "e", "n", "d", "/", "s", "2">>

\* The <ref> tags an XML content can hold.
RefTags == {[tag |-> "ref", href |-> h, text |-> "see"] : h \in {HrefExample, HrefAmend}}

\* The children of a root element: <ref> tags, and a <section> holding one.
XmlItems ==
    RefTags \cup {[tag |-> "section", identifier |-> IdA, body |-> <<r>>] : r \in {[tag |-> "ref", href |-> HrefExample, text |-> "see"]}}

\* "http://xml.house.gov/schemas/uslm/1.0"
UslmNamespace == <<"h", "t", "t", "p", ":", "/", "/", "x", "m", "l", ".", "h", "o", "u", "s", "e", ".", "g", "o", "v", "/", "s", "c", "h", "e", "m", "a", "s", "/", "u", "s", "l", "m", "/", "1", ".", "0">>

\* XML content, as the tree it denotes: a root tag, its identifier and
\* xmlns attributes (<<>>: none) and its children in document order.
XmlInputs ==
    [tag : {"bill", "lawDoc", "resolution", "doc"},
     identifier : {BillId},
     xmlns : {UslmNamespace, <<>>},
     body : UNION {[1..k -> XmlItems] : k \in 0..MaxItems}]

\* USLMElement values.
ElementInputs ==
    [type : {"section", "paragraph"},
     identifier : {IdA, IdC},
     children : {<<>>},
     refs : {<<>>} \cup {<<r>> : r \in RefInputs}]

ParserIdle ==
    /\ UNCHANGED <<nodes, edges, runs, detectStarted, lastAdded, overwritten, addedEdges>>
    /\ UNCHANGED passVars
    /\ UNCHANGED ingestVars

\* A call that has been made and has not returned yet.
Call(fn, arg) == [op |-> "call", fn |-> fn, arg |-> arg]

Calling(fn) == ret.op = "call" /\ ret.fn = fn

ParseIdentifier ==
    /\ Calling("parseIdentifier")
    /\ ret' = [op |-> "parseIdentifier", arg |-> ret.arg, value |-> parseIdentifier(ret.arg)]
    /\ ParserIdle

Parse ==
    /\ Calling("parse")
    /\ ret' = [op |-> "parse", arg |-> ret.arg, value |-> parse(ret.arg)]
    /\ ParserIdle

ExtractReferences ==
    /\ Calling("extractReferences")
    /\ ret' = [op |-> "extractReferences", arg |-> ret.arg, value |-> extractReferences(ret.arg)]
    /\ ParserIdle

Validate ==
    /\ Calling("validate")
    /\ ret' = [op |-> "validate", arg |-> ret.arg, value |-> validate(ret.arg)]
    /\ ParserIdle

\* The store is not used; one call of one function on one input.
InitParser ==
    /\ nodes = <<>>
    /\ edges = <<>>
    /\ ret \in {Call("parseIdentifier", identifier) : identifier \in IdentifierInputs}
              \cup {Call("parse", xmlContent) : xmlContent \in XmlInputs}
              \cup {Call("extractReferences", element) : element \in ElementInputs}
              \cup {Call("validate", xmlContent) : xmlContent \in XmlInputs}
    /\ runs = <<>>
    /\ detectStarted = FALSE
    /\ lastAdded = [id \in Ids |-> <<>>]
    /\ overwritten = {}
    /\ addedEdges = <<>>
    /\ PassIdle
    /\ IngestIdle

NextParser ==
    \/ ParseIdentifier
    \/ Parse
    \/ ExtractReferences
    \/ Validate

SpecParser == InitParser /\ [][NextParser]_vars

(***************************************************************************)
(* The documented reference extraction of the uslm-xml-parser skill        *)
(* (SKILL.md): extractReferences over the object fast-xml-parser builds,   *)
(* and classifyRefType.                                                    *)
(***************************************************************************)
MaxSegs == 3

\* String.prototype.includes
includes(s, sub) ==
    \E i \in 0..(Len(s) - Len(sub)) : SubSeq(s, i + 1, i + Len(sub)) = sub

MarkAmend == <<"/", "a", "m", "e", "n", "d", "/">>
MarkRepeal == <<"/", "r", "e", "p", "e", "a", "l", "/">>
MarkDef == <<"/", "d", "e", "f", "/">>

\* A classifier that tests '/repeal/' before '/amend/'.
classifyRefType_RepealFirst(href) ==
    IF includes(href, MarkRepeal) THEN "repeal"
    ELSE IF includes(href, MarkAmend) THEN "amendment"
    ELSE IF includes(href, MarkDef) THEN "definition"
    ELSE "citation"

classifyRefType(href) ==
    IF includes(href, MarkAmend) THEN "amendment"
    ELSE IF includes(href, MarkRepeal) THEN "repeal"
    ELSE IF includes(href, MarkDef) THEN "definition"
    ELSE "citation"

WordAmend == <<"a", "m", "e", "n", "d">>
WordAmended == <<"a", "m", "e", "n", "d", "e", "d">>
WordRepeal == <<"r", "e", "p", "e", "a", "l">>
WordDef == <<"d", "e", "f">>
WordUsc == <<"u", "s", "c">>
Words == {WordAmend, WordAmended, WordRepeal, WordDef, WordUsc}

\* "/" seg "/" seg ..., with a closing "/" when asked.
RECURSIVE Path(_, _)
Path(segs, closing) ==
    IF segs = <<>> THEN (IF closing THEN <<"/">> ELSE <<>>)
    ELSE <<"/">> \o Head(segs) \o Path(Tail(segs), closing)

\* href attribute values: every path of up to MaxSegs words.
HrefInputs ==
    {Path(segs, closing) :
        segs \in UNION {[1..k -> Words] : k \in 0..MaxSegs}, closing \in BOOLEAN}

\* A <ref> as fast-xml-parser gives it: ref['@_href'] || '' and ref['#text'] || ''.
RefObjInputs ==
    [href : {Path(<<WordRepeal, WordAmend>>, TRUE), Path(<<WordDef, WordRepeal>>, TRUE),
             Path(<<WordUsc, WordDef>>, TRUE), Path(<<WordUsc, WordAmend>>, FALSE)},
     text : {"see"}]

\* An element as fast-xml-parser gives it: node.ref as a list (a single
\* <ref> is wrapped by the code, no <ref> is the empty list) and the other
\* object-valued keys in key order.
NodeObjInputs ==
    [ref : UNION {[1..k -> RefObjInputs] : k \in 0..MaxRefs},
     kids : {<<>>} \cup {<<[ref |-> <<r>>, kids |-> <<>>]>> : r \in RefObjInputs}]

\* refs.push({type: this.classifyRefType(href), target: href, text})
RefOf(ref) == [type |-> classifyRefType(ref.href), target |-> ref.href, text |-> ref.text]

\* extractFromNode: the refs of node.ref, then the recursion into the
\* object-valued keys.  The recursion into node.ref itself finds nothing,
\* a <ref> having only an attribute and text.
RECURSIVE extractFromNode(_)
RECURSIVE extractFromKids(_)
extractFromNode(node) ==
    [i \in DOMAIN node.ref |-> RefOf(node.ref[i])] \o extractFromKids(node.kids)

extractFromKids(kids) ==
    IF kids = <<>> THEN <<>>
    ELSE extractFromNode(Head(kids)) \o extractFromKids(Tail(kids))

extractReferencesDocumented(element) == extractFromNode(element)

ClassifyRefType ==
    /\ Calling("classifyRefType")
    /\ ret' = [op |-> "classifyRefType", arg |-> ret.arg, value |-> classifyRefType(ret.arg)]
    /\ ParserIdle

ExtractReferencesDocumented ==
    /\ Calling("extractReferences")
    /\ ret' = [op |-> "extractReferences", arg |-> ret.arg,
               value |-> extractReferencesDocumented(ret.arg)]
    /\ ParserIdle

InitParserDocumented ==
    /\ nodes = <<>>
    /\ edges = <<>>
    /\ ret \in {Call("classifyRefType", href) : href \in HrefInputs}
              \cup {Call("extractReferences", element) : element \in NodeObjInputs}
    /\ runs = <<>>
    /\ detectStarted = FALSE
    /\ lastAdded = [id \in Ids |-> <<>>]
    /\ overwritten = {}
    /\ addedEdges = <<>>
    /\ PassIdle
    /\ IngestIdle

NextParserDocumented ==
    \/ ClassifyRefType
    \/ ExtractReferencesDocumented

SpecParserDocumented == InitParserDocumented /\ [][NextParserDocumented]_vars

(***************************************************************************)
(* The /api/ingest route (GET and POST handlers).  A handler runs as one   *)
(* step; what Congress.gov answers is chosen by the environment.  A JSON   *)
(* value is a record [t, v] so that truthiness is computed.                *)
(***************************************************************************)
MaxRequests == 2

CONGRESS_API_BASE == "https://api.congress.gov/v3"

Undefined == [t |-> "undefined"]
Null == [t |-> "null"]
Num(n) == [t |-> "number", v |-> n]
Str(chars) == [t |-> "string", v |-> chars]

\* !x of JavaScript, for the values above.
Falsy(x) ==
    \/ x.t \in {"undefined", "null"}
    \/ x.t = "number" /\ x.v = 0
    \/ x.t = "string" /\ x.v = <<>>

DigitChars == <<"0", "1", "2", "3", "4", "5", "6", "7", "8", "9">>

\* The decimal digits of a natural number.
RECURSIVE ToDecimal(_)
ToDecimal(n) ==
    IF n < 10 THEN <<DigitChars[n + 1]>>
    ELSE ToDecimal(n \div 10) \o <<DigitChars[(n % 10) + 1]>>

\* `${x}` for a number or a string.
TemplateString(x) == IF x.t = "number" THEN ToDecimal(x.v) ELSE x.v

\* parseInt(s) for a string without sign or blanks: its leading digits as
\* a number, NaN when it has none.
RECURSIVE LeadingDigits(_)
LeadingDigits(chars) ==
    IF chars # <<>> /\ Head(chars) \in Digits
    THEN <<Head(chars)>> \o LeadingDigits(Tail(chars))
    ELSE <<>>

RECURSIVE DecimalValue(_)
DecimalValue(digits) ==
    IF digits = <<>> THEN 0
    ELSE 10 * DecimalValue(SubSeq(digits, 1, Len(digits) - 1)) + DigitValue(digits[Len(digits)])

parseInt(chars) ==
    IF LeadingDigits(chars) = <<>> THEN [t |-> "NaN"] ELSE Num(DecimalValue(LeadingDigits(chars)))

\* a || b for strings: the empty string (and a missing parameter) is falsy.
OrDefault(chars, default) == IF chars = <<>> THEN default ELSE chars

\* NextResponse.json(body, {status}); the status defaults to 200.
Json(status, body) == [status |-> status, body |-> body]

ApiKeys == {<<>>, <<"k">>}

\* Query parameters of a GET; <<>> is a parameter that is absent or empty.
GetInputs ==
    [congress : {<<>>, <<"1", "1", "7">>},
     billType : {<<>>, <<"s">>},
     limit : {<<>>, <<"5">>, <<"x">>},
     offset : {<<>>}]

\* Bodies of a POST: text that is not JSON, the JSON value null, and
\* objects whose three fields are present, absent or falsy.
PostObjects ==
    [congress : {Num(118), Undefined, Num(0)},
     billType : {Str(<<"h", "r">>), Undefined, Str(<<>>)},
     billNumber : {Num(1), Num(2), Null}]

PostInputs ==
    {[kind |-> "notJson"], [kind |-> "null"]}
    \cup {[kind |-> "object", fields |-> o] : o \in PostObjects}

\* What the fetch of the GET handler can come to.
GetOutcomes == {"fetchThrows", "notOk", "jsonThrows", "ok"}

\* The bill of a Congress.gov answer; sponsors and latestAction are optional.
BillInputs ==
    [title : {"An Act"},
     sponsors : {<<>>, <<[firstName |-> "A", lastName |-> "B"]>>},
     introducedDate : {"2023-01-09"},
     latestAction : {<<>>, <<[actionDate |-> "2023-02-01", text |-> "Referred"]>>}]

\* What the fetch of the POST handler can come to.
PostOutcomes ==
    {[kind |-> k] : k \in {"fetchThrows", "notOk", "jsonThrows", "noBill"}}
    \cup {[kind |-> "bill", bill |-> b] : b \in BillInputs}

\* const url = `${CONGRESS_API_BASE}/bill/${congress}/${billType}?limit=...`
GetUrl(congress, billType, limit, offset, key) ==
    [base |-> CONGRESS_API_BASE, congress |-> congress, billType |-> billType,
     limit |-> limit, offset |-> offset, api_key |-> key]

\* const billUrl = `${CONGRESS_API_BASE}/bill/${congress}/${billType}/${billNumber}?api_key=...`
BillUrl(fields, key) ==
    [base |-> CONGRESS_API_BASE, congress |-> TemplateString(fields.congress),
     billType |-> TemplateString(fields.billType), billNumber |-> TemplateString(fields.billNumber),
     api_key |-> key]

\* const congressId = `${congress}-${billType}-${billNumber}`
CongressId(fields) ==
    TemplateString(fields.congress) \o <<"-">> \o TemplateString(fields.billType)
        \o <<"-">> \o TemplateString(fields.billNumber)

\* The checks of POST made before the fetch, with the API key tested first.
PostReject_KeyFirst(fields, key) ==
    IF key = <<>>
    THEN <<Json(500, [error |-> "CONGRESS_API_KEY not configured"])>>
    ELSE IF Falsy(fields.congress) \/ Falsy(fields.billType) \/ Falsy(fields.billNumber)
    THEN <<Json(400, [error |-> "Missing required fields: congress, billType, billNumber"])>>
    ELSE <<>>

\* The checks of POST made before the fetch: <<response>> when one of them
\* returns, <<>> when the handler goes on.
PostReject(fields, key) ==
    IF Falsy(fields.congress) \/ Falsy(fields.billType) \/ Falsy(fields.billNumber)
    THEN <<Json(400, [error |-> "Missing required fields: congress, billType, billNumber"])>>
    ELSE IF key = <<>>
    THEN <<Json(500, [error |-> "CONGRESS_API_KEY not configured"])>>
    ELSE <<>>

\* The catch blocks.
GetFailed == Json(500, [error |-> "Failed to fetch bills from Congress.gov"])
PostFailed == Json(500, [error |-> "Failed to ingest bill"])

\* The response of POST after the fetch.
PostAnswer(fields, outcome) ==
    IF outcome.kind \in {"fetchThrows", "notOk", "jsonThrows"} THEN PostFailed
    ELSE IF outcome.kind = "noBill" THEN Json(404, [error |-> "Bill not found"])
    ELSE Json(200,
              [success |-> TRUE,
               message |-> "Bill ingested successfully",
               congressId |-> CongressId(fields),
               bill |-> [title |-> outcome.bill.title,
                         sponsor |-> outcome.bill.sponsors,
                         introducedDate |-> outcome.bill.introducedDate,
                         status |-> outcome.bill.latestAction]])

GET ==
    /\ Len(upstream) < MaxRequests
    /\ \E params \in GetInputs, outcome \in GetOutcomes :
          LET congress == OrDefault(params.congress, <<"1", "1", "8">>)
              billType == OrDefault(params.billType, <<"h", "r">>)
              limit == parseInt(OrDefault(params.limit, <<"2", "0">>))
              offset == parseInt(OrDefault(params.offset, <<"0">>))
          IN  IF apiKey = <<>>
              THEN /\ ret' = [op |-> "GET", arg |-> params,
                              value |-> Json(500, [error |-> "CONGRESS_API_KEY not configured"])]
                   /\ UNCHANGED upstream
              ELSE /\ upstream' = Append(upstream, GetUrl(congress, billType, limit, offset, apiKey))
                   /\ ret' = [op |-> "GET", arg |-> params,
                              value |-> IF outcome = "ok"
                                        THEN Json(200, [success |-> TRUE,
                                                        data |-> [bills |-> <<>>],
                                                        pagination |-> [limit |-> limit,
                                                                        offset |-> offset,
                                                                        congress |-> congress,
                                                                        billType |-> billType]])
                                        ELSE GetFailed]
    /\ UNCHANGED <<bills, apiKey>>
    /\ UNCHANGED <<nodes, edges, runs, detectStarted, lastAdded, overwritten, addedEdges>>
    /\ UNCHANGED passVars

\* The insert into the bills table is commented out in the handler: no
\* outcome changes bills.
POST ==
    /\ Len(upstream) < MaxRequests
    /\ \E body \in PostInputs, outcome \in PostOutcomes :
          IF body.kind \in {"notJson", "null"}
          THEN /\ ret' = [op |-> "POST", arg |-> body, value |-> PostFailed]
               /\ UNCHANGED upstream
          ELSE IF PostReject(body.fields, apiKey) # <<>>
          THEN /\ ret' = [op |-> "POST", arg |-> body,
                          value |-> PostReject(body.fields, apiKey)[1]]
               /\ UNCHANGED upstream
          ELSE /\ upstream' = Append(upstream, BillUrl(body.fields, apiKey))
               /\ ret' = [op |-> "POST", arg |-> body,
                          value |-> PostAnswer(body.fields, outcome)]
    /\ UNCHANGED <<bills, apiKey>>
    /\ UNCHANGED <<nodes, edges, runs, detectStarted, lastAdded, overwritten, addedEdges>>
    /\ UNCHANGED passVars

InitIngest ==
    /\ nodes = <<>>
    /\ edges = <<>>
    /\ ret = [op |-> "listen", value |-> <<>>]
    /\ runs = <<>>
    /\ detectStarted = FALSE
    /\ lastAdded = [id \in Ids |-> <<>>]
    /\ overwritten = {}
    /\ addedEdges = <<>>
    /\ PassIdle
    /\ bills = {}
    /\ upstream = <<>>
    /\ apiKey \in ApiKeys

NextIngest ==
    \/ GET
    \/ POST

SpecIngest == InitIngest /\ [][NextIngest]_vars

(***************************************************************************)
(* What the claims say of a finding list fs returned for the store         *)
(* (ns, es).                                                               *)
(***************************************************************************)
OfType(fs, type) == SelectSeq(fs, LAMBDA f : f.type = type)

\* How many findings of fs have this type and these affectedNodes.
CountFindings(fs, type, affected) ==
    Cardinality({i \in DOMAIN fs : fs[i].type = type /\ fs[i].affectedNodes = affected})

CountEdges(es, from, to) ==
    Cardinality({i \in DOMAIN es : es[i].from = from /\ es[i].to = to})

DanglingOnePerEdge(fs, ns, es) ==
    /\ \A f \in Ids : \A t \in Ids :
          CountFindings(fs, "dangling_reference", <<f, t>>)
              = IF t \notin NodeKeys(ns) THEN CountEdges(es, f, t) ELSE 0
    /\ Len(OfType(fs, "dangling_reference"))
          = Cardinality({i \in DOMAIN es : es[i].to \notin NodeKeys(ns)})

IsOrphaned(ns, es, id) ==
    /\ id \in NodeKeys(ns)
    /\ \E i \in DOMAIN es : es[i].from = id
    /\ ~ \E i \in DOMAIN es : es[i].to = id

OrphanedIff(fs, ns, es) ==
    /\ \A id \in Ids :
          CountFindings(fs, "orphaned_section", <<id>>)
              = IF IsOrphaned(ns, es, id) THEN 1 ELSE 0
    /\ Len(OfType(fs, "orphaned_section"))
          = Cardinality({id \in Ids : IsOrphaned(ns, es, id)})

\* The edges are a single simple directed cycle over known nodes: every
\* vertex has one outgoing and one incoming edge, and following the edges
\* from one vertex visits them all.
Succ(es, v) == es[CHOOSE i \in DOMAIN es : es[i].from = v].to

RECURSIVE Orbit(_, _, _)
Orbit(es, v, n) ==
    IF n = 0 THEN {} ELSE {Succ(es, v)} \cup Orbit(es, Succ(es, v), n - 1)

CycleVertices(es) == {es[i].from : i \in DOMAIN es}

IsSingleSimpleCycle(ns, es) ==
    /\ es # <<>>
    /\ CycleVertices(es) \subseteq NodeKeys(ns)
    /\ {es[i].to : i \in DOMAIN es} = CycleVertices(es)
    /\ Cardinality(CycleVertices(es)) = Len(es)
    /\ Orbit(es, es[1].from, Len(es)) = CycleVertices(es)

SingleCycleOneFinding(fs, ns, es) ==
    IsSingleSimpleCycle(ns, es) =>
        LET cf == OfType(fs, "circular_dependency")
        IN  /\ Len(cf) = 1
            /\ cf[1].severity = "high"
            /\ CycleVertices(es) \subseteq Range(cf[1].affectedNodes)

GroupTargets(es, base) ==
    LET group == SelectSeq(es, LAMBDA e : basePath(e.to) = base)
    IN  FirstSeen([i \in DOMAIN group |-> group[i].to], {})

AmbiguousPerGroup(fs, es) ==
    LET bases == {basePath(es[i].to) : i \in DOMAIN es}
        flagged == {b \in bases : Len(GroupTargets(es, b)) \in 2..4}
    IN  /\ \A b \in bases :
              CountFindings(fs, "ambiguous_reference", GroupTargets(es, b))
                  = IF b \in flagged THEN 1 ELSE 0
        /\ Len(OfType(fs, "ambiguous_reference")) = Cardinality(flagged)

PassRank(type) ==
    CASE type = "circular_dependency" -> 1
      [] type = "orphaned_section" -> 2
      [] type = "dangling_reference" -> 3
      [] type = "ambiguous_reference" -> 4
      [] OTHER -> 5

InPassOrder(fs) ==
    \A i \in DOMAIN fs : \A j \in DOMAIN fs :
        i < j => PassRank(fs[i].type) <= PassRank(fs[j].type)

(***************************************************************************)
(* The claims.                                                             *)
(***************************************************************************)

\* C1: every detectLoopholes result holds exactly one dangling_reference
\* finding per edge whose `to` is not a key of the node mapping, with
\* affectedNodes = [from, to] (repeated edges counted each), and none for an
\* edge whose `to` is a known node.
C1_DanglingOnePerEdge ==
    \A r \in DOMAIN runs : DanglingOnePerEdge(runs[r], nodes, edges)

\* C2: every detectLoopholes result reports a node in an orphaned_section
\* finding iff it has an outgoing edge and no incoming edge, once, with
\* affectedNodes = [identifier].
C2_OrphanedIff ==
    \A r \in DOMAIN runs : OrphanedIff(runs[r], nodes, edges)

\* C3: for a store whose edges are a single simple directed cycle over known
\* nodes, every detectLoopholes result holds exactly one circular_dependency
\* finding, of severity high, whose affectedNodes contains every node of the
\* cycle.
C3_SingleCycleOneFinding ==
    \A r \in DOMAIN runs : SingleCycleOneFinding(runs[r], nodes, edges)

\* C4: every detectLoopholes result holds exactly one ambiguous_reference
\* finding per basePath group with 2, 3 or 4 distinct targets, listing them
\* in first-seen order, and none for any other group.
C4_AmbiguousPerGroup ==
    \A r \in DOMAIN runs : AmbiguousPerGroup(runs[r], edges)

\* C5: every detectLoopholes result is the concatenation of the outputs of
\* the circular, orphaned, dangling and ambiguous passes, in that order.
C5_ConcatenationInOrder ==
    \A r \in DOMAIN runs :
        /\ InPassOrder(runs[r])
        /\ runs[r] = detectCircularReferences(nodes, edges)
                     \o detectOrphanedSections(nodes, edges)
                     \o detectDanglingReferences(nodes, edges)
                     \o detectAmbiguousReferences(edges)

C7_PassesTerminate == <>(pc = "done" /\ Len(passOut) = 5)

\* A finished run on a store with a self-loop, parallel edges and an edge
\* end that is not a node.
C7_Witness ==
    /\ pc = "done"
    /\ \E i \in DOMAIN edges : edges[i].from = edges[i].to
    /\ \E i \in DOMAIN edges : \E j \in DOMAIN edges : i # j /\ edges[i] = edges[j]
    /\ \E i \in DOMAIN edges : edges[i].from \notin NodeKeys(nodes)
    /\ passOut[1] # <<>>

\* The dfs recursion never reaches the depth at which the model stops it.
DepthWithinBound == Len(frames) < MaxDepth

ReadOps == {"getNode", "getEdgesFrom", "getEdgesTo", "getAllNodes", "getAllEdges",
            "detectLoopholes"}

\* C8: a read accessor or a detectLoopholes call leaves the node mapping and
\* the edge sequence unchanged, and every list returned since the store
\* last changed is the list a run on the store as it is returns.
C8_ReadsLeaveStore ==
    /\ [][ret'.op \in ReadOps => (nodes' = nodes /\ edges' = edges)]_vars
    /\ [](\A r \in DOMAIN runs : runs[r] = detectLoopholes(nodes, edges))

\* A read that returned edges, after two detection runs on the same store.
C8_Witness ==
    /\ Len(runs) = 2
    /\ ret.op = "getAllEdges"
    /\ Len(ret.value) = MaxEdges
    /\ nodes # <<>>

\* C9: once a detectLoopholes call has begun on a store, no node or edge is
\* added to it.
C9_NoMutationAfterDetection ==
    [][detectStarted => (nodes' = nodes /\ edges' = edges)]_vars

\* C10: the store holds at most one node per identifier, getNode returns
\* the node of the most recent addNode with that identifier, and the node
\* count is the number of identifiers added.
C10_LastWriteWins ==
    /\ \A i \in DOMAIN nodes : \A j \in DOMAIN nodes :
          i # j => nodes[i].identifier # nodes[j].identifier
    /\ \A id \in Ids : getNode(nodes, id) = lastAdded[id]
    /\ Len(getAllNodes(nodes)) = Cardinality({id \in Ids : lastAdded[id] # <<>>})

\* "/t/a" was re-added with a different node, after another node was added.
C10_Witness ==
    /\ IdA \in overwritten
    /\ Len(nodes) >= 2
    /\ nodes[1].identifier = IdA
    /\ ret.op = "getNode"
    /\ ret.value = <<[identifier |-> IdA, citation |-> "c2", nodeType |-> "chapter"]>>

IsPrefix(s, t) == Len(s) <= Len(t) /\ SubSeq(t, 1, Len(s)) = s

\* C11: getAllEdges returns exactly the edges passed to addEdge, one entry
\* per call and in call order, whether or not edges repeat and whether or
\* not their ends are known nodes.
C11_EdgesNeverCollapse == getAllEdges(edges) = addedEdges

\* getAllEdges returned two identical edges whose `to` is not a node.
C11_Witness ==
    /\ ret.op = "getAllEdges"
    /\ \E i \in DOMAIN ret.value : \E j \in DOMAIN ret.value :
          /\ i < j
          /\ ret.value[i] = ret.value[j]
          /\ ret.value[i].to \notin NodeKeys(nodes)
          /\ ret.value[i].from \notin NodeKeys(nodes)

\* C12: no step removes a node identifier or an edge: the identifiers
\* before a step are among those after it, and the edge sequence before it
\* is a prefix of the one after it.
C12_StoreOnlyGrows ==
    [][/\ NodeKeys(nodes) \subseteq NodeKeys(nodes')
       /\ IsPrefix(edges, edges')]_vars

\* A store that was filled, had a node replaced, and was then read and
\* analysed.
C12_Witness ==
    /\ Len(nodes) = Cardinality(Ids)
    /\ Len(edges) = MaxEdges
    /\ overwritten # {}
    /\ runs # <<>>
    /\ ret.op = "getEdgesTo"

\* C13: merging a document sets one node under document.identifier and
\* appends one edge per entry of document.references, in reference order,
\* with from = document.identifier, to = reference.target and refType =
\* reference.type; the edges already there are untouched.
C13_MergeAddsNodeAndEdges ==
    [][ret'.op = "mergeDocument" =>
          LET doc == ret'.value
              refs == doc.references
          IN  /\ NodeKeys(nodes') = NodeKeys(nodes) \cup {doc.identifier}
              /\ Len(nodes') = Cardinality(NodeKeys(nodes'))
              /\ \A id \in NodeKeys(nodes) \ {doc.identifier} :
                    getNode(nodes', id) = getNode(nodes, id)
              /\ Len(edges') = Len(edges) + Len(refs)
              /\ IsPrefix(edges, edges')
              /\ \A i \in DOMAIN refs :
                    /\ edges'[Len(edges) + i].from = doc.identifier
                    /\ edges'[Len(edges) + i].to = refs[i].target
                    /\ edges'[Len(edges) + i].refType = refs[i].type]_vars

\* A second document was merged into a store that already held edges; it
\* has two references of different types, the first to a missing target.
C13_Witness ==
    /\ ret.op = "mergeDocument"
    /\ Len(ret.value.references) = 2
    /\ ret.value.references[1].type # ret.value.references[2].type
    /\ ret.value.references[1].target \notin NodeKeys(nodes)
    /\ Len(edges) > Len(ret.value.references)
    /\ Len(nodes) = 2

\* Every finding a run of the documented passes holds at this point: the
\* closure's list and the lists the passes returned.
AllFindings ==
    Range(loopholes) \cup UNION {Range(passOut[i]) : i \in DOMAIN passOut}

\* The severity rubric as the claim states it.
SeverityOf(type) ==
    CASE type = "circular_dependency" -> "high"
      [] type = "orphaned_section" -> "medium"
      [] type = "dangling_reference" -> "medium"
      [] type = "ambiguous_reference" -> "low"
      [] OTHER -> "none"

\* C14: every finding has one of the four types and the severity that type
\* fixes: circular_dependency high, orphaned_section medium,
\* dangling_reference medium, ambiguous_reference low.
C14_SeverityFixedByType ==
    \A f \in AllFindings :
        /\ f.type \in {"circular_dependency", "orphaned_section",
                       "dangling_reference", "ambiguous_reference"}
        /\ f.severity = SeverityOf(f.type)

\* A finished run that returned findings of all four types, one of them a
\* dangling finding for a self-edge.
C14_Witness ==
    /\ pc = "done"
    /\ \A t \in {"circular_dependency", "orphaned_section",
                 "dangling_reference", "ambiguous_reference"} :
          OfType(passOut[5], t) # <<>>
    /\ \E f \in Range(passOut[5]) :
          f.type = "dangling_reference" /\ f.affectedNodes[1] = f.affectedNodes[2]

NoRepeats(seq) == \A i \in DOMAIN seq : \A j \in DOMAIN seq : seq[i] = seq[j] => i = j

\* C15: no identifier occurs twice in the affectedNodes of any finding of
\* any of the four passes.
C15_AffectedNodesNoRepeats == \A f \in AllFindings : NoRepeats(f.affectedNodes)

\* The value an object holds under a key: <<>> if none, else <<value>>.
ObjectGet(obj, key) ==
    IF \E i \in DOMAIN obj : obj[i].key = key
    THEN <<obj[CHOOSE i \in DOMAIN obj : obj[i].key = key].value>>
    ELSE <<>>

ObjectKeys(obj) == {obj[i].key : i \in DOMAIN obj}

\* The non-empty segments of a path, in order.
Segments(id) == SelectSeq(split(id, "/"), LAMBDA seg : seg # <<>>)

\* The indices i with segment 2i and segment 2i+1 both present (segments
\* counted from 0).
PairIndices(segs) == {i \in 0..Len(segs) : 2 * i + 2 <= Len(segs)}

\* C16: parseIdentifier(id) pairs segment 2i (key) with segment 2i+1 (value)
\* for every i with both present, and holds nothing else: a trailing
\* unpaired segment is dropped, empty segments are discarded.
C16_PairsEverySegmentPair ==
    ret.op = "parseIdentifier" =>
        LET segs == Segments(ret.arg)
        IN  /\ \A i \in PairIndices(segs) :
                  ObjectGet(ret.value, segs[2 * i + 1]) = <<segs[2 * i + 2]>>
            /\ ObjectKeys(ret.value) = {segs[2 * i + 1] : i \in PairIndices(segs)}

\* What parseIdentifier does return: per key the value of the last pair
\* with that key, and no entry for the key __proto__.
ParseIdentifierLastPairWins ==
    ret.op = "parseIdentifier" =>
        LET segs == Segments(ret.arg)
            pairs == PairIndices(segs)
        IN  /\ ObjectKeys(ret.value) = {segs[2 * i + 1] : i \in pairs} \ {ProtoKey}
            /\ \A i \in pairs :
                  (/\ segs[2 * i + 1] # ProtoKey
                   /\ \A j \in pairs : j > i => segs[2 * j + 1] # segs[2 * i + 1])
                  => ObjectGet(ret.value, segs[2 * i + 1]) = <<segs[2 * i + 2]>>
            /\ Len(ret.value) = Cardinality(ObjectKeys(ret.value))

\* A well-formed path of even segment count: "/" seg "/" seg ..., no empty
\* segment, no closing "/".
WellFormedEven(id) ==
    LET pieces == split(id, "/")
    IN  /\ Len(pieces) >= 2
        /\ pieces[1] = <<>>
        /\ \A i \in 2..Len(pieces) : pieces[i] # <<>>
        /\ (Len(pieces) - 1) % 2 = 0

\* The key/value pairs of a mapping re-joined in mapping order.
RECURSIVE Rejoin(_)
Rejoin(obj) ==
    IF obj = <<>> THEN <<>>
    ELSE <<"/">> \o Head(obj).key \o <<"/">> \o Head(obj).value \o Rejoin(Tail(obj))

\* C17: for a well-formed path of even segment count, re-joining the pairs
\* of parseIdentifier(id) in mapping order with "/" reproduces id.
C17_RoundTrip ==
    (ret.op = "parseIdentifier" /\ WellFormedEven(ret.arg)) => Rejoin(ret.value) = ret.arg

\* /<country>/<docType>/t<title>/s<section>
UslmForm(id) ==
    LET segs == Segments(id)
    IN  /\ WellFormedEven(id)
        /\ Len(segs) = 4
        /\ Len(segs[3]) > 1 /\ segs[3][1] = "t"
        /\ Len(segs[4]) > 1 /\ segs[4][1] = "s"

KeyCountry == <<"c", "o", "u", "n", "t", "r", "y">>
KeyDocType == <<"d", "o", "c", "T", "y", "p", "e">>
KeyTitle == <<"t", "i", "t", "l", "e">>
KeySection == <<"s", "e", "c", "t", "i", "o", "n">>

\* C18: for /<country>/<docType>/t<title>/s<section> parseIdentifier gives
\* country, docType, title and section as separate entries ("us", "usc",
\* "42", "1983" for "/us/usc/t42/s1983").
C18_NamedComponents ==
    (ret.op = "parseIdentifier" /\ UslmForm(ret.arg)) =>
        LET segs == Segments(ret.arg)
        IN  /\ ObjectGet(ret.value, KeyCountry) = <<segs[1]>>
            /\ ObjectGet(ret.value, KeyDocType) = <<segs[2]>>
            /\ ObjectGet(ret.value, KeyTitle) = <<Tail(segs[3])>>
            /\ ObjectGet(ret.value, KeySection) = <<Tail(segs[4])>>

\* The <ref> tags of a tree, in document order.
RECURSIVE RefTagsOf(_)
RefTagsOf(body) ==
    IF body = <<>> THEN <<>>
    ELSE (IF Head(body).tag = "ref" THEN <<Head(body)>> ELSE RefTagsOf(Head(body).body))
         \o RefTagsOf(Tail(body))

\* C19: parsing a document whose root is bill, lawDoc or resolution gives
\* docType = the root tag, identifier = the root's identifier attribute and
\* one reference per <ref> tag, in document order, target = the tag's href.
C19_ParseRootAndReferences ==
    (ret.op = "parse" /\ ret.arg.tag \in {"bill", "lawDoc", "resolution"}) =>
        LET tags == RefTagsOf(ret.arg.body)
        IN  /\ ret.value.docType = ret.arg.tag
            /\ ret.value.identifier = ret.arg.identifier
            /\ Len(ret.value.references) = Len(tags)
            /\ \A i \in DOMAIN tags : ret.value.references[i].target = tags[i].href

\* target contains "/" word "/": word is a piece of the target that is
\* neither its first nor its last piece.
HasMarker(target, word) ==
    LET pieces == split(target, "/")
    IN  \E i \in 2..(Len(pieces) - 1) : pieces[i] = word

\* The refType the precedence amend > repeal > def > citation gives.
RefTypeByPrecedence(target) ==
    CASE HasMarker(target, WordAmend) -> "amendment"
      [] ~HasMarker(target, WordAmend) /\ HasMarker(target, WordRepeal) -> "repeal"
      [] /\ ~HasMarker(target, WordAmend)
         /\ ~HasMarker(target, WordRepeal)
         /\ HasMarker(target, WordDef) -> "definition"
      [] OTHER -> "citation"

\* C20: every reference gets the one refType decided by substring match on
\* its target in the precedence '/amend/' amendment, else '/repeal/' repeal,
\* else '/def/' definition, else citation.
C20_RefTypePrecedence ==
    /\ ret.op = "classifyRefType" => ret.value = RefTypeByPrecedence(ret.arg)
    /\ ret.op = "extractReferences" =>
          \A i \in DOMAIN ret.value : ret.value[i].type = RefTypeByPrecedence(ret.value[i].target)

\* Two references were extracted, the first from the element itself with a
\* target that holds '/repeal/' before '/amend/', the second from a child
\* with a target that holds '/def/' before '/repeal/'.
C20_Witness ==
    /\ ret.op = "extractReferences"
    /\ Len(ret.arg.ref) = 1 /\ Len(ret.arg.kids) = 1
    /\ Len(ret.value) = 2
    /\ ret.value[1].target = Path(<<WordRepeal, WordAmend>>, TRUE)
    /\ ret.value[1].type = "amendment"
    /\ ret.value[2].target = Path(<<WordDef, WordRepeal>>, TRUE)
    /\ ret.value[2].type = "repeal"

WordUslm == <<"u", "s", "l", "m">>

\* C21: validate never raises and returns valid = TRUE exactly when errors
\* is empty; content with none of the root tags lawDoc/bill/resolution gets
\* valid = FALSE with an error, and so does content whose root lacks the
\* USLM namespace.
C21_ValidateReportsStructure ==
    ret.op = "validate" =>
        /\ DOMAIN ret.value = {"valid", "errors"}
        /\ ret.value.valid = (ret.value.errors = <<>>)
        /\ ret.arg.tag \notin RootTags =>
              (~ret.value.valid /\ Len(ret.value.errors) >= 1)
        /\ (ret.arg.tag \in RootTags /\ ~includes(ret.arg.xmlns, WordUslm)) =>
              (~ret.value.valid /\ Len(ret.value.errors) >= 1)

\* An element with nothing in it.
IsPlaceholder(element) ==
    /\ element.identifier = <<>>
    /\ element.children = <<>>
    /\ element.refs = <<>>

RECURSIVE ElementRefs(_)
RECURSIVE ChildrenRefs(_)
ElementRefs(element) == element.refs \o ChildrenRefs(element.children)

ChildrenRefs(children) ==
    IF children = <<>> THEN <<>>
    ELSE ElementRefs(Head(children)) \o ChildrenRefs(Tail(children))

Targets(refs) == [i \in DOMAIN refs |-> refs[i].target]

Hrefs(tags) == [i \in DOMAIN tags |-> tags[i].href]

\* The <ref> tags that are children of the root itself.
OwnRefTags(body) == SelectSeq(body, LAMBDA item : item.tag = "ref")

\* C23: every <ref> tag of a parsed document is recorded once in the
\* document's references and once in the refs of its innermost enclosing
\* element, not in the refs of that element's ancestors; both in pre-order
\* document order.
C23_EachRefOnceInBothLists ==
    (ret.op = "parse" /\ "docType" \in DOMAIN ret.value /\ ret.arg.tag \in RootTags) =>
        /\ Targets(ret.value.references) = Hrefs(RefTagsOf(ret.arg.body))
        /\ Targets(ElementRefs(ret.value.root)) = Hrefs(RefTagsOf(ret.arg.body))
        /\ Targets(ret.value.root.refs) = Hrefs(OwnRefTags(ret.arg.body))

\* C24: after a POST that responds with success the bills table holds a
\* row keyed by congress_id = "<congress>-<billType>-<billNumber>".
C24_SuccessHasStoredBill ==
    (ret.op = "POST" /\ ret.value.status = 200) =>
        \E row \in bills : row.congress_id = CongressId(ret.arg.fields)

LacksField(fields) ==
    Falsy(fields.congress) \/ Falsy(fields.billType) \/ Falsy(fields.billNumber)

IngestNeverStores == bills = {} /\ (apiKey = <<>> => upstream = <<>>)

\* The identifiers of the dfs calls below the current one, outermost
\* first: the current path, ending with the node whose edge is followed.
CurrentPath == [i \in 1..(Len(frames) - 1) |-> frames[i].nodeId]

\* The part of a sequence from the first occurrence of x on.
SuffixFrom(seq, x) ==
    LET first == CHOOSE i \in DOMAIN seq : seq[i] = x /\ \A j \in 1..(i - 1) : seq[j] # x
    IN  SubSeq(seq, first, Len(seq))

\* C25: when the circular pass follows an edge u -> v with v on the DFS
\* stack it emits one circular_dependency finding whose affectedNodes is the
\* suffix of the current path from v's first occurrence, followed by v.
C25_CycleIsPathSuffix ==
    [][(pc = "circular" /\ frames # <<>> /\ Top.k = 0 /\ Top.nodeId \in stack) =>
          /\ Len(loopholes') = Len(loopholes) + 1
          /\ SubSeq(loopholes', 1, Len(loopholes)) = loopholes
          /\ loopholes'[Len(loopholes')].type = "circular_dependency"
          /\ loopholes'[Len(loopholes')].affectedNodes
                = Append(SuffixFrom(CurrentPath, Top.nodeId), Top.nodeId)]_vars

\* The pass started at A on A -> B, B -> C, C -> A reported A, B, C, A.
C25_Witness ==
    /\ pc = "done"
    /\ nodes # <<>>
    /\ nodes[1].identifier = IdA
    /\ [i \in DOMAIN edges |-> <<edges[i].from, edges[i].to>>]
          = <<<<IdA, IdB>>, <<IdB, IdC>>, <<IdC, IdA>>>>
    /\ Len(passOut[1]) = 1
    /\ passOut[1][1].affectedNodes = <<IdA, IdB, IdC, IdA>>

\* C27: a dfs call expands its identifier only if it was not visited
\* before, visited never shrinks (so every identifier is expanded at most
\* once and every edge followed at most once), and the circular findings
\* never outnumber the edges.
C27_ExpandedAtMostOnce ==
    [][/\ visited \subseteq visited'
       /\ (pc = "circular" /\ frames # <<>> /\ Top.k = 0 /\ Len(frames') = Len(frames)) =>
             (Top.nodeId \notin visited /\ visited' = visited \cup {Top.nodeId})
       /\ (pc = "circular" /\ Len(frames') > Len(frames) /\ frames # <<>>) =>
             Top.nodeId \in visited
       /\ Len(loopholes') <= Len(edges')]_vars

\* A run is over in which a second start node and an edge led to
\* identifiers already explored, on a store with a cycle.
C27_Witness ==
    /\ pc = "done"
    /\ Len(nodes) >= 2
    /\ Len(edges) = MaxEdges
    /\ Len(passOut[1]) = 1
    /\ \E i \in DOMAIN edges : \E j \in DOMAIN edges :
          i # j /\ edges[i].to = edges[j].to /\ edges[i].from # edges[j].from
    /\ \A i \in DOMAIN nodes : \E j \in DOMAIN edges : edges[j].to = nodes[i].identifier

\* No two entries of es join the same from to the same to.
NoParallelEdges(es) ==
    \A i \in DOMAIN es : \A j \in DOMAIN es :
        (es[i].from = es[j].from /\ es[i].to = es[j].to) => i = j

\* One run of the circular pass on (ns, es) emits two findings with the
\* same set of affected nodes from two different starting nodes.
SameCycleFromTwoStarts(ns, es) ==
    LET fs == detectCircularReferences(ns, es)
        starts == circularStarts(ns, es)
    IN  \E i \in DOMAIN fs : \E j \in DOMAIN fs :
            /\ i # j
            /\ Range(fs[i].affectedNodes) = Range(fs[j].affectedNodes)
            /\ starts[i] # starts[j]

\* C26 as stated: there is a graph without parallel edges on which one run
\* of the circular pass emits two circular_dependency findings with the
\* same set of affected nodes, each from a different starting node.  The
\* graphs are all the stores a run can start from; the statement is
\* evaluated where a run is over.
C26_SomeGraphReportsCycleTwice ==
    pc = "done" =>
        \E ns \in PassNodes : \E es \in PassEdges :
            NoParallelEdges(es) /\ SameCycleFromTwoStarts(ns, es)

\* C26 amended: in every run, parallel edges or not, two circular findings
\* with the same set of affected nodes come from the same starting node; a
\* cycle that a later starting node reaches again is not reported again.
C26_EachCycleFromOneStart ==
    pc \notin {"idle", "circular"} =>
        /\ passOut[1] = detectCircularReferences(nodes, edges)
        /\ Len(circularStarts(nodes, edges)) = Len(passOut[1])
        /\ ~SameCycleFromTwoStarts(nodes, edges)

\* A finished run with one finding: the first starting node is off the
\* cycle and reaches it, the second starting node lies on the cycle.
C26_Witness ==
    /\ pc = "done"
    /\ Len(nodes) >= 2
    /\ Len(passOut[1]) = 1
    /\ circularStarts(nodes, edges) = <<nodes[1].identifier>>
    /\ nodes[1].identifier \notin Range(passOut[1][1].affectedNodes)
    /\ nodes[2].identifier \in Range(passOut[1][1].affectedNodes)

\* The identifiers reachable from the set S by edges of es (S included).
RECURSIVE Reach(_, _)
Reach(es, S) ==
    LET next == S \cup {es[i].to : i \in {j \in DOMAIN es : es[j].from \in S}}
    IN  IF next = S THEN S ELSE Reach(es, next)

\* v lies on a directed cycle of es.
OnCycle(es, v) == v \in Reach(es, {es[i].to : i \in {j \in DOMAIN es : es[j].from = v}})

\* Some directed cycle can be reached from a node of the mapping.
ReachableCycle(ns, es) == \E v \in Reach(es, NodeKeys(ns)) : OnCycle(es, v)

\* ids is a closed walk along edges of es.
TracesCycle(es, ids) ==
    /\ Len(ids) >= 2
    /\ ids[1] = ids[Len(ids)]
    /\ \A i \in 1..(Len(ids) - 1) :
          \E j \in DOMAIN es : es[j].from = ids[i] /\ es[j].to = ids[i + 1]

\* C28: the circular pass returns a finding exactly when a directed cycle
\* (self-loops included) is reachable from a node of the mapping, and the
\* affectedNodes of every finding traces a directed cycle of edges.
C28_SoundAndComplete ==
    /\ \A i \in DOMAIN loopholes : TracesCycle(edges, loopholes[i].affectedNodes)
    /\ pc \notin {"idle", "circular"} =>
          /\ (passOut[1] # <<>>) = ReachableCycle(nodes, edges)
          /\ \A i \in DOMAIN passOut[1] : TracesCycle(edges, passOut[1][i].affectedNodes)

\* A finished run that found a cycle of two edges passing through an
\* identifier that is not a node.
C28_Witness ==
    /\ pc = "done"
    /\ passOut[1] # <<>>
    /\ \E i \in DOMAIN passOut[1] :
          \E k \in DOMAIN passOut[1][i].affectedNodes :
              passOut[1][i].affectedNodes[k] \notin NodeKeys(nodes)
    /\ Len(passOut[1][1].affectedNodes) = 3

\* A finished run that reported nothing although the edges hold a cycle: no
\* node of the mapping reaches it.
UnreachableCycleUnreported ==
    ~(pc = "done" /\ passOut[1] = <<>> /\ nodes # <<>>
         /\ \E i \in DOMAIN edges : OnCycle(edges, edges[i].from))

\* C29: in a store populated only by merges every edge's from is the
\* identifier of a node of the mapping (an edge can dangle only at its to
\* end), so every edge starts at an identifier the circular pass reaches
\* and every edge source is a node the orphan pass looks at.
C29_EdgeSourcesAreNodes ==
    \A i \in DOMAIN edges :
        /\ edges[i].from \in NodeKeys(nodes)
        /\ edges[i].from \in Reach(edges, NodeKeys(nodes))
        /\ \E k \in DOMAIN getAllNodes(nodes) :
              getAllNodes(nodes)[k].identifier = edges[i].from

\* Two documents were merged, the store is full, and an edge dangles at
\* its to end.
C29_Witness ==
    /\ ret.op = "mergeDocument"
    /\ Len(nodes) = 2
    /\ Len(edges) = MaxEdges
    /\ \E i \in DOMAIN edges : edges[i].to \notin NodeKeys(nodes)
    /\ \E i \in DOMAIN edges : edges[i].from # ret.value.identifier

(***************************************************************************)
(* The documented implementation meets C1 - C5: the list SpecPasses ends   *)
(* with satisfies each of them.                                            *)
(***************************************************************************)
DocumentedMeetsClaims ==
    pc = "done" =>
        /\ DanglingOnePerEdge(passOut[5], nodes, edges)
        /\ OrphanedIff(passOut[5], nodes, edges)
        /\ SingleCycleOneFinding(passOut[5], nodes, edges)
        /\ AmbiguousPerGroup(passOut[5], edges)
        /\ InPassOrder(passOut[5])
        /\ passOut[5] = passOut[1] \o passOut[2] \o passOut[3] \o passOut[4]

====
